---- MODULE Spec2Model ----
(***************************************************************************)
(* State-machine model of hicstuff's pipeline core:                        *)
(*   - bam2pairs   (hicstuff/pipeline.py): merge of two name-sorted BAM    *)
(*                 streams into a .pairs file;                             *)
(*   - pairs2matrix (hicstuff/pipeline.py) with sort_pairs (hicstuff/io.py)*)
(*                 : run-length aggregation of fragment pairs.             *)
(* Read identifiers are modelled by naturals that stand for the rank of    *)
(* the identifier under Python's string order (the order `<` of the code). *)
(***************************************************************************)
EXTENDS Integers, Sequences, FiniteSets, TLC

\* ------------------------------------------------------------------ bounds
\* Longest BAM stream explored (records per file).
MaxLen == 3
\* Read identifiers are 1..MaxName.
MaxName == 3

\* Most data rows in the pairs file given to pairs2matrix.
MaxRows == 3
\* Number of restriction fragments in the fragments file.
NFrags == 11

\* ------------------------------------------------------- program constants
\* Default of bam2pairs' min_qual parameter.
min_qual == 30

\* Mapping qualities explored: just below, and exactly at, the threshold.
Quals == {min_qual - 1, min_qual}

\* Alignment coordinates explored: (reference_id, reference_start, is_reverse).
Loci == { <<0, 7, FALSE>>, <<0, 3, TRUE>>, <<1, 1, TRUE>> }

\* Coordinate carried by the records of files that are not name-sorted.
AnyLocus == <<0, 7, FALSE>>

\* Reference names of the BAM header, indexed by reference_id + 1, with the
\* contig lengths of the info_contigs table (same row order).
Contigs == << [contig |-> "seq1", length |-> 60], [contig |-> "seq2", length |-> 40] >>

\* The value zip_longest fills in for an exhausted file.
None == [none |-> TRUE]

\* The alignment records (pysam.AlignedSegment) file i may hold; `source`
\* remembers the file a record was read from.
Reads(i) ==
    { [ query_name |-> n, mapping_quality |-> q, reference_id |-> l[1],
        reference_start |-> l[2], is_reverse |-> l[3], source |-> i ]
      : n \in 1..MaxName, q \in Quals, l \in Loci }

VARIABLES
    \* ---- bam2pairs
    pc,             \* control point of the running function
    nameSorted,     \* the input files satisfy the documented precondition
    eof,            \* eof[i]: file i has no record left (i = 1 forward, 2 reverse)
    pulled,         \* pulled[i]: number of records read from file i
    calls,          \* calls[i]: number of next() calls made on file i
    maxName,        \* maxName[i]: largest identifier read from file i so far
    disorder,       \* some file yielded an identifier smaller than an earlier one
    consumed,       \* consumed[i]: <<identifier, quality>> of the records read from
                    \* file i, in order (kept for name-sorted runs)
    zipActive,      \* zip_longest still iterates file i
    end1, end2,     \* the loop variables (lookahead records)
    end1_passed, end2_passed,
    exhausted,
    n_total, n_mapped, unmatched_reads,
    pairs,          \* lines of the out_pairs file
    \* ---- pairs2matrix
    mat_fmt,        \* "GRAAL" or "bg2"
    pairs_file,     \* lines of the input pairs file (header, then data rows)
    pre_mat_file,   \* lines of mat_file + ".pre.pairs"
    sort_left,      \* rows the sort subprocess has still to write
    cursor,         \* number of lines of pre_mat_file read so far
    prev_pair, curr_pair,
    n_occ, n_nonzero, n_pairs,
    mat,            \* lines of mat_file written by pairs2matrix
    mat_tail,       \* lines the sort subprocess appended to mat_file after them
    p2m_pc,         \* control point of pairs2matrix
    \* ---- full_pipeline (coordinate sort) and filter_pcr_dup
    pcr_pc,         \* control point
    from_pipeline,  \* filter_pcr_dup is called by full_pipeline
    pairs_idx,      \* lines of pairs_idx_file
    idx_sort_left,  \* rows the sort subprocess has still to write to it
    idx_before,     \* the data rows pairs_idx held when sort_pairs was called
    filtered,       \* lines of filtered_file
    prev,           \* the last record written
    pcr_cursor,     \* number of lines of pairs_idx_file read so far
    filter_count, reads_count,
    applications,   \* number of times filter_pcr_dup has been started
    \* ---- full_pipeline (order of the stages)
    fp_pc,          \* control point
    start_stage,    \* the start_stage argument
    fp_opts,        \* the arguments filter_events, pcr_duplicates,
                    \* distance_law and no_cleanup
    fragments_updated,
    use_pairs,      \* the pairs file handed to the next stage
    fp_ran,         \* the calls made so far, in order
    aligner,        \* the aligner argument
    on_path,        \* the programs found on PATH
    fp_log,         \* the errors logged by the check of the third parties
    fp_written,     \* the paths the run has written, or renamed a file over
    fp_removed,     \* the paths the cleanup has removed
    matrix_input,   \* the pairs file pairs2matrix was called on
    \* ---- get_pairs_header
    hdr_pc,         \* control point
    hdr_file,       \* lines of the pairs file
    hdr_header,     \* the list returned
    \* ---- sort_pairs called with any keys
    sp_pc,          \* control point
    sp_keys,        \* the keys argument
    sp_in,          \* lines of in_file
    sp_exists,      \* out_file exists
    sp_out,         \* lines of out_file
    sp_started,     \* the subprocesses started
    sp_sort_left    \* rows the sort subprocess has still to write

b2pVars == << pc, nameSorted, eof, pulled, calls, maxName, disorder, consumed,
              zipActive, end1, end2, end1_passed, end2_passed, exhausted,
              n_total, n_mapped, unmatched_reads, pairs >>

p2mVars == << mat_fmt, pairs_file, pre_mat_file, sort_left, cursor, prev_pair,
              curr_pair, n_occ, n_nonzero, n_pairs, mat, mat_tail, p2m_pc >>

pcrVars == << pcr_pc, from_pipeline, pairs_idx, idx_sort_left, idx_before, filtered, prev,
              pcr_cursor, filter_count, reads_count, applications >>

fpVars == << fp_pc, start_stage, fp_opts, fragments_updated, use_pairs, fp_ran,
             aligner, on_path, fp_log, fp_written, fp_removed, matrix_input >>

hdrVars == << hdr_pc, hdr_file, hdr_header >>

spVars == << sp_pc, sp_keys, sp_in, sp_exists, sp_out, sp_started, sp_sort_left >>

vars == << b2pVars, p2mVars, pcrVars, fpVars, hdrVars, spVars >>

\* ------------------------------------------------------------ bam2pairs

\* reference_name of a record: the header's name for its reference_id.
reference_name(r) == Contigs[r.reference_id + 1].contig

\* Mutants of the quality gate: strict comparison, and off by one.
PassesStrict(r) == r.mapping_quality > min_qual
PassesLax(r) == r.mapping_quality >= min_qual - 1

\* The quality gate, `end.mapping_quality >= min_qual`.
Passes(r) == r.mapping_quality >= min_qual

\* Decimal text of the small naturals that occur, str(n), and its inverse
\* int(s).
Decimal == << "0", "1", "2", "3", "4", "5", "6", "7", "8", "9", "10", "11",
              "12", "13", "14", "15" >>
RECURSIVE str(_)
str(n) ==
    IF n < Len(Decimal) THEN Decimal[n + 1]
    ELSE str(n \div 10) \o Decimal[(n % 10) + 1]
int(s) == CHOOSE n \in 0..(Len(Decimal) - 1) : Decimal[n + 1] = s

\* A header line of a pairs file, as its space-separated words.
HeaderLine(t) == [kind |-> "header", text |-> t]
ChromLine(c) == [kind |-> "header", text |-> <<"#chromsize:", c.contig, str(c.length)>>]

\* Mutant: the #chromsize lines are written last contig first.
PairsHeaderReversed ==
    << HeaderLine(<<"## pairs format v1.0">>),
       HeaderLine(<<"#sorted:", "readID">>),
       HeaderLine(<<"#columns:", "readID", "chr1", "pos1", "chr2", "pos2",
                    "strand1", "strand2">>) >>
    \o [i \in 1..Len(Contigs) |-> ChromLine(Contigs[Len(Contigs) + 1 - i])]

\* Header lines written by bam2pairs before any row.
PairsHeader ==
    << HeaderLine(<<"## pairs format v1.0">>),
       HeaderLine(<<"#sorted:", "readID">>),
       HeaderLine(<<"#columns:", "readID", "chr1", "pos1", "chr2", "pos2",
                    "strand1", "strand2">>) >>
    \o [i \in 1..Len(Contigs) |-> ChromLine(Contigs[i])]

\* The records file i may hold next.  Two families of input are explored:
\* name-sorted files (increasing identifiers, the documented precondition)
\* with every alignment coordinate of Loci, and files with identifiers in
\* any order, whose records all carry the coordinate AnyLocus.
Admissible(i) ==
    IF nameSorted
    THEN { r \in Reads(i) : r.query_name > maxName[i] }
    ELSE { r \in Reads(i) : << r.reference_id, r.reference_start, r.is_reverse >> = AnyLocus }

\* What next(file i) can return: a further record, or StopIteration (None)
\* once the file is at its end.
NextOf(i) ==
    IF eof[i] \/ pulled[i] >= MaxLen
    THEN {None}
    ELSE {None} \cup Admissible(i)

\* The file state after next(file i) returned a.
AfterNext(i, a, st) ==
    IF a = None
    THEN [st EXCEPT !.eof[i] = TRUE, !.calls[i] = @ + 1]
    ELSE [st EXCEPT !.pulled[i] = @ + 1,
                    !.calls[i] = @ + 1,
                    !.maxName[i] = IF a.query_name > @ THEN a.query_name ELSE @,
                    !.disorder = @ \/ a.query_name < st.maxName[i],
                    !.consumed[i] = IF nameSorted
                                    THEN Append(@, << a.query_name, a.mapping_quality >>)
                                    ELSE @]

FileState == [eof |-> eof, pulled |-> pulled, calls |-> calls, maxName |-> maxName,
              disorder |-> disorder, consumed |-> consumed]

SetFiles(st) ==
    /\ eof' = st.eof
    /\ pulled' = st.pulled
    /\ calls' = st.calls
    /\ maxName' = st.maxName
    /\ disorder' = st.disorder
    /\ consumed' = st.consumed

\* The value prev holds for every column before the first record, the int 0
\* of `prev = {k: 0 for k in paircols}`: it is equal to no column text.
int_zero == "int 0"

\* Column names of a pairs file with fragment columns.
paircols == << "readID", "chr1", "pos1", "chr2", "pos2", "strand1", "strand2",
              "frag1", "frag2" >>

\* sort_pairs is not being looked at on its own.
SortOff ==
    /\ sp_pc = "off"
    /\ sp_keys = <<>>
    /\ sp_in = <<>>
    /\ sp_exists = FALSE
    /\ sp_out = <<>>
    /\ sp_started = {}
    /\ sp_sort_left = <<>>

\* get_pairs_header is not being looked at on its own.
HdrOff ==
    /\ hdr_pc = "off"
    /\ hdr_file = <<>>
    /\ hdr_header = <<>>

\* full_pipeline is not running.
FPOff ==
    /\ fp_pc = "off"
    /\ start_stage = "fastq"
    /\ fp_opts = [ filter_events |-> FALSE, pcr_duplicates |-> FALSE,
                   distance_law |-> FALSE, no_cleanup |-> FALSE ]
    /\ fragments_updated = FALSE
    /\ use_pairs = "pairs_idx"
    /\ fp_ran = <<>>
    /\ aligner = "bowtie2"
    /\ on_path = {}
    /\ fp_log = <<>>
    /\ fp_written = {}
    /\ fp_removed = {}
    /\ matrix_input = ""

\* filter_pcr_dup is not running.
PCROff ==
    /\ pcr_pc = "off"
    /\ from_pipeline = FALSE
    /\ pairs_idx = <<>>
    /\ idx_sort_left = <<>>
    /\ idx_before = <<>>
    /\ filtered = <<>>
    /\ prev = [c \in { paircols[i] : i \in 1..Len(paircols) } |-> int_zero]
    /\ pcr_cursor = 0
    /\ filter_count = 0
    /\ reads_count = 0
    /\ applications = 0

\* pairs2matrix is not running.
P2MOff ==
    /\ mat_fmt = "GRAAL"
    /\ pairs_file = <<>>
    /\ pre_mat_file = <<>>
    /\ sort_left = <<>>
    /\ cursor = 0
    /\ prev_pair = <<"0", "0">>
    /\ curr_pair = <<>>
    /\ n_occ = 0
    /\ n_nonzero = 0
    /\ n_pairs = 0
    /\ mat = <<>>
    /\ mat_tail = <<>>
    /\ p2m_pc = "off"

InitB2P ==
    /\ pc = "zip"
    /\ nameSorted \in BOOLEAN
    /\ eof = <<FALSE, FALSE>>
    /\ pulled = <<0, 0>>
    /\ calls = <<0, 0>>
    /\ maxName = <<0, 0>>
    /\ disorder = FALSE
    /\ consumed = << <<>>, <<>> >>
    /\ zipActive = <<TRUE, TRUE>>
    /\ end1 = None
    /\ end2 = None
    /\ end1_passed = FALSE
    /\ end2_passed = FALSE
    /\ exhausted = <<FALSE, FALSE>>
    /\ n_total = 0
    /\ n_mapped = 0
    /\ unmatched_reads = 0
    /\ pairs = PairsHeader
    /\ P2MOff
    /\ PCROff
    /\ FPOff
    /\ HdrOff
    /\ SortOff

\* One turn of `for end1, end2 in itertools.zip_longest(forward, reverse)`
\* followed by the two try blocks that test the quality of the new records.
ZipNext ==
    /\ pc = "zip"
    /\ \E a1 \in (IF zipActive[1] THEN NextOf(1) ELSE {None}) :
       \E a2 \in (IF zipActive[2] THEN NextOf(2) ELSE {None}) :
          LET act1 == zipActive[1] /\ a1 # None
              \* zip_longest stops, without reading the second file, when the
              \* first file was the last active one
              stopAt1 == zipActive[1] /\ a1 = None /\ ~zipActive[2]
              act2 == zipActive[2] /\ a2 # None
              st1 == IF zipActive[1] THEN AfterNext(1, a1, FileState) ELSE FileState
              st2 == IF zipActive[2] /\ ~stopAt1 THEN AfterNext(2, a2, st1) ELSE st1
          IN  /\ stopAt1 => a2 = None
              /\ SetFiles(st2)
              /\ zipActive' = <<act1, act2>>
              /\ IF ~act1 /\ ~act2
                 THEN /\ pc' = "report"
                      /\ UNCHANGED << end1, end2, end1_passed, end2_passed, exhausted >>
                 ELSE /\ pc' = "while"
                      /\ end1' = a1
                      /\ end2' = a2
                      /\ end1_passed' = IF a1 = None THEN FALSE ELSE Passes(a1)
                      /\ end2_passed' = IF a2 = None THEN FALSE ELSE Passes(a2)
                      /\ exhausted' = << exhausted[1] \/ a1 = None,
                                         exhausted[2] \/ a2 = None >>
    /\ UNCHANGED << nameSorted, n_total, n_mapped, unmatched_reads, pairs >>
    /\ UNCHANGED << p2mVars, pcrVars, fpVars, hdrVars, spVars >>

\* Condition of the inner while loop.
Mismatch ==
    /\ ~exhausted[1] /\ ~exhausted[2]
    /\ end1.query_name # end2.query_name

\* Mutant: the comparison of the identifiers is inverted.
LaggingWrong == IF end1.query_name > end2.query_name THEN 1 ELSE 2

\* Which file one turn of the while loop reads: the one whose identifier is
\* smaller.
Lagging == IF end1.query_name < end2.query_name THEN 1 ELSE 2

\* Mutant: the except clause leaves end_passed as it was.
ResyncPassedStale(a, old) == IF a = None THEN old ELSE Passes(a)

\* Mutant: the except clause does not record the end of the file.
MarkExhaustedNever(a, old) == old

\* end_passed after `end = next(file)` in the while loop: the quality test
\* of the new record, or False in the except clause.
ResyncPassed(a, old) == IF a = None THEN FALSE ELSE Passes(a)

\* exhausted[i] after `end = next(file)` in the while loop: set in the
\* except clause.
MarkExhausted(a, old) == old \/ a = None

\* One turn of the inner while loop.
Resync ==
    /\ pc = "while"
    /\ Mismatch
    /\ unmatched_reads' = unmatched_reads + 1
    /\ n_total' = n_total + 1
    /\ \E a \in NextOf(Lagging) :
          /\ SetFiles(AfterNext(Lagging, a, FileState))
          /\ IF Lagging = 1
             THEN /\ end1' = IF a = None THEN end1 ELSE a
                  /\ end1_passed' = ResyncPassed(a, end1_passed)
                  /\ exhausted' = << MarkExhausted(a, exhausted[1]), exhausted[2] >>
                  /\ n_mapped' = n_mapped + (IF end1_passed' THEN 1 ELSE 0)
                  /\ UNCHANGED << end2, end2_passed >>
             ELSE /\ end2' = IF a = None THEN end2 ELSE a
                  /\ end2_passed' = ResyncPassed(a, end2_passed)
                  /\ exhausted' = << exhausted[1], MarkExhausted(a, exhausted[2]) >>
                  /\ n_mapped' = n_mapped + (IF end2_passed' THEN 1 ELSE 0)
                  /\ UNCHANGED << end1, end1_passed >>
    /\ UNCHANGED << pc, nameSorted, zipActive, pairs >>
    /\ UNCHANGED << p2mVars, pcrVars, fpVars, hdrVars, spVars >>

\* Mutant: the ends are ordered by position alone.
FlipByStartOnly(e1, e2) == e1.reference_start > e2.reference_start

\* "Flipping to get upper triangle": the condition under which the ends swap.
Flip(e1, e2) ==
    \/ /\ e1.reference_id = e2.reference_id
       /\ e1.reference_start > e2.reference_start
    \/ e1.reference_id > e2.reference_id

\* Mutant: the two positions are written in each other's place.
PairRowPosSwapped(e1, e2) ==
    [ kind |-> "row",
      fields |-> << e1.query_name,
                    reference_name(e1),
                    str(e2.reference_start + 1),
                    reference_name(e2),
                    str(e1.reference_start + 1),
                    IF e1.is_reverse THEN "-" ELSE "+",
                    IF e2.is_reverse THEN "-" ELSE "+" >> ]

\* The line pairs_writer.writerow writes for ends e1, e2 (already ordered):
\* the fields of the list it receives, in order, numbers as decimal text.
PairRow(e1, e2) ==
    [ kind |-> "row",
      fields |-> << e1.query_name,
                    reference_name(e1),
                    str(e1.reference_start + 1),
                    reference_name(e2),
                    str(e2.reference_start + 1),
                    IF e1.is_reverse THEN "-" ELSE "+",
                    IF e2.is_reverse THEN "-" ELSE "+" >> ]

\* Mutant: the sum of two booleans is taken for 0.
Sum2Zero(a, b) == 0

\* Number of TRUE entries, `sum(exhausted)` and `sum([end1_passed, end2_passed])`.
Sum2(a, b) == (IF a THEN 1 ELSE 0) + (IF b THEN 1 ELSE 0)

\* Whether the body after the while loop writes a row.
KeepPair == end1_passed /\ end2_passed

\* The rest of the for body once the while loop is left: counters, then the
\* row of the pair if both ends passed.
Emit ==
    /\ pc = "while"
    /\ ~Mismatch
    /\ n_total' = n_total + (2 - Sum2(exhausted[1], exhausted[2]))
    /\ n_mapped' = n_mapped + Sum2(end1_passed, end2_passed)
    /\ IF KeepPair
       THEN IF Flip(end1, end2)
            THEN /\ end1' = end2
                 /\ end2' = end1
                 /\ pairs' = Append(pairs, PairRow(end2, end1))
            ELSE /\ pairs' = Append(pairs, PairRow(end1, end2))
                 /\ UNCHANGED << end1, end2 >>
       ELSE UNCHANGED << end1, end2, pairs >>
    /\ pc' = "zip"
    /\ UNCHANGED << nameSorted, eof, pulled, calls, maxName, disorder, consumed,
                    zipActive, end1_passed, end2_passed, exhausted, unmatched_reads >>
    /\ UNCHANGED << p2mVars, pcrVars, fpVars, hdrVars, spVars >>

\* After the loop: close the file and log the summary; the percentage
\* divides by n_reads["total"].
Report ==
    /\ pc = "report"
    /\ pc' = IF n_total = 0 THEN "raised" ELSE "done"
    /\ UNCHANGED << nameSorted, eof, pulled, calls, maxName, disorder, consumed,
                    zipActive, end1, end2, end1_passed, end2_passed, exhausted,
                    n_total, n_mapped, unmatched_reads, pairs >>
    /\ UNCHANGED << p2mVars, pcrVars, fpVars, hdrVars, spVars >>

NextB2P == ZipNext \/ Resync \/ Emit \/ Report

SpecB2P == InitB2P /\ [][NextB2P]_vars

\* bam2pairs runs to its end: no step is postponed forever.
FairB2P == SpecB2P /\ WF_vars(NextB2P)

\* ---------------------------------------------- sort_pairs and pairs2matrix

\* Fragment identifiers explored in the frag1 and frag2 columns.
FragIds == {0, 9, 10}

\* The characters (digits) of the decimal text of n < 100.
DigitsOf(n) == IF n < 10 THEN <<n>> ELSE << n \div 10, n % 10 >>

\* Dictionary (character by character) order of two texts.
LexLess(a, b) ==
    \E k \in 1..(Len(a) + 1) :
        /\ \A j \in 1..(k - 1) : j <= Len(b) /\ a[j] = b[j]
        /\ k <= Len(b)
        /\ (k = Len(a) + 1 \/ a[k] < b[k])

\* Mutant: the fragment columns are compared as text (sort key "d").
FieldLessDict(a, b) == LexLess(DigitsOf(int(a)), DigitsOf(int(b)))

\* The value sort gives to a numeric key: an empty key counts as 0.
NumVal(t) == IF t = "" THEN 0 ELSE int(t)

\* Order of two keys under "n" ("-k8,8n"): comparison by numeric value.
FieldLess(a, b) == NumVal(a) < NumVal(b)

\* The key sort takes from a line for a column: the column text, empty when
\* the line has fewer columns.
KeyField(r, col) == IF col <= Len(r.fields) THEN r.fields[col] ELSE ""

\* key_map of sort_pairs: the column and the comparison of each sort key.
key_map ==
    [ readID |-> <<1, "d">>, chr1 |-> <<2, "d">>, pos1 |-> <<3, "n">>,
      chr2 |-> <<4, "d">>, pos2 |-> <<5, "n">>, strand1 |-> <<6, "d">>,
      strand2 |-> <<7, "d">>, frag1 |-> <<8, "n">>, frag2 |-> <<9, "n">> ]

\* The bytes of a column text.
Bytes(t) ==
    CASE t = "+" -> <<43>>
      [] t = "-" -> <<45>>
      [] t = "seq1" -> <<115, 101, 113, 49>>
      [] t = "seq2" -> <<115, 101, 113, 50>>
      [] t = "" -> <<>>
      [] OTHER -> [i \in 1..Len(DigitsOf(int(t))) |-> 48 + DigitsOf(int(t))[i]]

RECURSIVE JoinTab(_)
\* The bytes of a line: its column texts joined by tabs.
JoinTab(fs) ==
    IF Len(fs) = 1 THEN Bytes(fs[1]) ELSE Bytes(fs[1]) \o <<9>> \o JoinTab(Tail(fs))

\* Order of two lines under one sort key: "n" compares numeric values, "d"
\* compares text.
KeyLess(k, r, t) ==
    LET col == key_map[k][1]
    IN  IF key_map[k][2] = "n"
        THEN FieldLess(KeyField(r, col), KeyField(t, col))
        ELSE LexLess(Bytes(KeyField(r, col)), Bytes(KeyField(t, col)))

RECURSIVE LineLess(_, _, _)
\* Order of two lines under the sort command with the given keys, in
\* priority order; lines equal on every key are ordered by their bytes (the
\* last-resort comparison of sort).
LineLess(keys, r, t) ==
    IF keys = <<>> THEN LexLess(JoinTab(r.fields), JoinTab(t.fields))
    ELSE \/ KeyLess(Head(keys), r, t)
         \/ /\ ~KeyLess(Head(keys), t, r)
            /\ LineLess(Tail(keys), r, t)

RECURSIVE InsertLine(_, _, _)
InsertLine(keys, r, rows) ==
    IF rows = <<>> THEN <<r>>
    ELSE IF LineLess(keys, r, Head(rows)) THEN <<r>> \o rows
    ELSE <<Head(rows)>> \o InsertLine(keys, r, Tail(rows))

RECURSIVE SortLines(_, _)
\* Output of the sort command with the given keys on rows.
SortLines(keys, rows) ==
    IF rows = <<>> THEN <<>>
    ELSE InsertLine(keys, Head(rows), SortLines(keys, Tail(rows)))

IsHeader(l) == l.kind = "header"
IsData(l) == l.kind = "row"

\* Mutant: the line is kept as it is.
rstrip_none(l) == l

RECURSIVE rstrip(_)
\* line.rstrip(): the line without its trailing whitespace.  A line is kept
\* as its space-separated words, and a trailing space shows as an empty last
\* word.
rstrip(l) ==
    IF l.text # <<>> /\ l.text[Len(l.text)] = ""
    THEN rstrip([l EXCEPT !.text = SubSeq(l.text, 1, Len(l.text) - 1)])
    ELSE l

RECURSIVE get_pairs_header(_)
\* get_pairs_header: lines are read while they start with '#', and each is
\* appended stripped.
get_pairs_header(f) ==
    IF f = <<>> \/ ~IsHeader(Head(f)) THEN <<>>
    ELSE << rstrip(Head(f)) >> \o get_pairs_header(Tail(f))

RECURSIVE JoinDash(_)
\* "-".join(keys).
JoinDash(keys) ==
    IF Len(keys) = 1 THEN keys[1] ELSE keys[1] \o "-" \o JoinDash(Tail(keys))

\* The header line sort_pairs writes for a header line of its input.
RewriteSorted(l, keys) ==
    IF l.text[1] = "#sorted:" THEN HeaderLine(<<"#sorted:", JoinDash(keys)>>) ELSE l

\* The file at out_file when sort_pairs returns: the rewritten header.  The
\* data rows are left to the grep and sort subprocesses, which sort_pairs
\* starts and does not wait for.
sort_pairs(in_file, keys) ==
    LET header == get_pairs_header(in_file)
    IN  [i \in 1..Len(header) |-> RewriteSorted(header[i], keys)]

\* What the subprocesses append to out_file: the lines of in_file that do
\* not start with '#', sorted by the keys.
sort_cmd(in_file, keys) == SortLines(keys, SelectSeq(in_file, IsData))

\* Header of a pairs file with fragment columns.
IdxHeader ==
    << HeaderLine(<<"## pairs format v1.0">>),
       HeaderLine(<<"#sorted:", "readID">>),
       HeaderLine(<<"#columns:", "readID", "chr1", "pos1", "chr2", "pos2",
                    "strand1", "strand2", "frag1", "frag2">>) >>
    \o [i \in 1..Len(Contigs) |-> ChromLine(Contigs[i])]

\* The data rows explored; pairs2matrix reads their frag1 and frag2 columns.
DataRows ==
    { [kind |-> "row",
       fields |-> << "1", "seq1", "9", "seq1", "12", "+", "+", str(a), str(b) >>] :
         a \in FragIds, b \in FragIds }

\* Row frag (0-based) of the fragments table read from fragments_file.
frags(i) == [ chrom |-> IF i < 6 THEN "seq1" ELSE "seq2",
              start_pos |-> i, end_pos |-> i + 1 ]

\* n_frags: the lines of fragments_file minus the header line.
n_frags == NFrags

\* Mutant: two pairs are taken for the same when their first fragments agree.
SamePairFirstOnly(last, curr) == last[1] = curr[1]

\* `prev_pair == curr_pair`: equality of the two lists of column texts.
SamePair(last, curr) == last = curr

\* Mutant: the bg2 line takes the interval of frag1 for both fragments.
write_mat_entry_first_twice(frag1, frag2, contacts) ==
    IF mat_fmt = "GRAAL"
    THEN << prev_pair[1], prev_pair[2], str(n_occ) >>
    ELSE << frags(int(frag1)).chrom,
            str(frags(int(frag1)).start_pos),
            str(frags(int(frag1)).end_pos),
            frags(int(frag1)).chrom,
            str(frags(int(frag1)).start_pos),
            str(frags(int(frag1)).end_pos),
            str(contacts) >>

\* The line write_mat_entry(frag1, frag2, contacts) writes.  In GRAAL format
\* the function reads prev_pair and n_occ of the enclosing scope.
write_mat_entry(frag1, frag2, contacts) ==
    IF mat_fmt = "GRAAL"
    THEN << prev_pair[1], prev_pair[2], str(n_occ) >>
    ELSE << frags(int(frag1)).chrom,
            str(frags(int(frag1)).start_pos),
            str(frags(int(frag1)).end_pos),
            frags(int(frag2)).chrom,
            str(frags(int(frag2)).start_pos),
            str(frags(int(frag2)).end_pos),
            str(contacts) >>

\* bam2pairs is not running.
B2POff ==
    /\ pc = "off"
    /\ nameSorted = TRUE
    /\ eof = <<FALSE, FALSE>>
    /\ pulled = <<0, 0>>
    /\ calls = <<0, 0>>
    /\ maxName = <<0, 0>>
    /\ disorder = FALSE
    /\ consumed = << <<>>, <<>> >>
    /\ zipActive = <<TRUE, TRUE>>
    /\ end1 = None
    /\ end2 = None
    /\ end1_passed = FALSE
    /\ end2_passed = FALSE
    /\ exhausted = <<FALSE, FALSE>>
    /\ n_total = 0
    /\ n_mapped = 0
    /\ unmatched_reads = 0
    /\ pairs = <<>>

\* pairs2matrix is called on a pairs file whose data rows are in RowSet.
P2MCalled(RowSet) ==
    /\ B2POff
    /\ PCROff
    /\ FPOff
    /\ HdrOff
    /\ SortOff
    /\ mat_fmt \in {"GRAAL", "bg2"}
    /\ \E n \in 0..MaxRows : \E rows \in [1..n -> RowSet] :
          pairs_file = IdxHeader \o rows
    /\ pre_mat_file = <<>>
    /\ sort_left = <<>>
    /\ cursor = 0
    /\ prev_pair = <<"0", "0">>
    /\ curr_pair = <<>>
    /\ n_occ = 0
    /\ n_nonzero = 0
    /\ n_pairs = 0
    /\ mat = <<>>
    /\ mat_tail = <<>>
    /\ p2m_pc = "start"

InitP2M == P2MCalled(DataRows)

\* pairs2matrix up to the for loop: call sort_pairs on the pairs file, skip
\* the header of the sorted file and write the placeholder header of a GRAAL
\* matrix.
P2MStart ==
    /\ p2m_pc = "start"
    /\ pre_mat_file' = sort_pairs(pairs_file, <<"frag1", "frag2">>)
    /\ sort_left' = sort_cmd(pairs_file, <<"frag1", "frag2">>)
    /\ cursor' = Len(get_pairs_header(pre_mat_file'))
    /\ prev_pair' = <<"0", "0">>
    /\ n_occ' = 0
    /\ n_nonzero' = 0
    /\ n_pairs' = 0
    /\ mat' = IF mat_fmt = "GRAAL"
              THEN << << str(n_frags), str(n_frags), "-" >> >>
              ELSE <<>>
    /\ p2m_pc' = "loop"
    /\ UNCHANGED << mat_fmt, pairs_file, curr_pair, mat_tail >>
    /\ UNCHANGED << b2pVars, pcrVars, fpVars, hdrVars, spVars >>

\* The sort subprocess writes its next row to the file it was started on.
\* That file is the sorted pairs file until pairs2matrix ends; the end of a
\* GRAAL run reopens it for writing and renames it to mat_file, and the end
\* of a bg2 run removes it.
SortWrite ==
    /\ p2m_pc \in {"loop", "fixup", "raised", "done"}
    /\ sort_left # <<>>
    /\ sort_left' = Tail(sort_left)
    /\ IF p2m_pc = "done"
       THEN /\ mat_tail' = IF mat_fmt = "GRAAL"
                           THEN Append(mat_tail, Head(sort_left))
                           ELSE mat_tail
            /\ UNCHANGED pre_mat_file
       ELSE /\ pre_mat_file' = Append(pre_mat_file, Head(sort_left))
            /\ UNCHANGED mat_tail
    /\ UNCHANGED << mat_fmt, pairs_file, cursor, prev_pair, curr_pair, n_occ,
                    n_nonzero, n_pairs, mat, p2m_pc >>
    /\ UNCHANGED << b2pVars, pcrVars, fpVars, hdrVars, spVars >>

\* One turn of `for pair in pairs_reader`: the reader has a line to read.
\* `pair[7], pair[8]` raises an IndexError on a line of fewer than nine
\* columns.
P2MRow ==
    /\ p2m_pc = "loop"
    /\ cursor < Len(pre_mat_file)
    /\ LET pair == pre_mat_file[cursor + 1]
           curr == << pair.fields[8], pair.fields[9] >>
       IN  IF Len(pair.fields) < 9
           THEN /\ p2m_pc' = "raised"
                /\ UNCHANGED << curr_pair, prev_pair, n_occ, n_pairs, n_nonzero, mat >>
           ELSE /\ curr_pair' = curr
                /\ UNCHANGED p2m_pc
                /\ IF SamePair(prev_pair, curr)
                   THEN /\ n_occ' = n_occ + 1
                        /\ UNCHANGED << prev_pair, n_pairs, n_nonzero, mat >>
                   ELSE /\ mat' = IF n_occ > 0
                                  THEN Append(mat, write_mat_entry(prev_pair[1], prev_pair[2], n_occ))
                                  ELSE mat
                        /\ prev_pair' = curr
                        /\ n_pairs' = n_pairs + n_occ
                        /\ n_occ' = 1
                        /\ n_nonzero' = n_nonzero + 1
    /\ cursor' = cursor + 1
    /\ UNCHANGED << mat_fmt, pairs_file, pre_mat_file, sort_left, mat_tail >>
    /\ UNCHANGED << b2pVars, pcrVars, fpVars, hdrVars, spVars >>

\* The reader finds the end of the file as it stands, and the loop ends.
\* After the loop: "Write the last value".  curr_pair is unbound when the
\* loop body never ran, and the function then ends with a NameError.
P2MFlush ==
    /\ p2m_pc = "loop"
    /\ cursor >= Len(pre_mat_file)
    /\ IF curr_pair = <<>>
       THEN /\ p2m_pc' = "raised"
            /\ UNCHANGED << mat, n_nonzero, n_pairs >>
       ELSE /\ mat' = Append(mat, write_mat_entry(curr_pair[1], curr_pair[2], n_occ))
            /\ n_nonzero' = n_nonzero + 1
            /\ n_pairs' = n_pairs + 1
            /\ p2m_pc' = "fixup"
    /\ UNCHANGED << mat_fmt, pairs_file, pre_mat_file, sort_left, cursor, prev_pair,
                    curr_pair, n_occ, mat_tail >>
    /\ UNCHANGED << b2pVars, pcrVars, fpVars, hdrVars, spVars >>

\* header.replace("-", str(n_nonzero)) on the first line of the matrix.
FixHeader(header) ==
    [i \in 1..Len(header) |-> IF header[i] = "-" THEN str(n_nonzero) ELSE header[i]]

\* The end of pairs2matrix: a GRAAL matrix is copied with its header
\* completed and renamed over mat_file; in bg2 format the sorted pairs file
\* is removed.
P2MFixHeader ==
    /\ p2m_pc = "fixup"
    /\ IF mat_fmt = "GRAAL"
       THEN mat' = << FixHeader(Head(mat)) >> \o Tail(mat)
       ELSE mat' = mat
    /\ pre_mat_file' = <<>>
    /\ p2m_pc' = "done"
    /\ UNCHANGED << mat_fmt, pairs_file, sort_left, cursor, prev_pair, curr_pair,
                    n_occ, n_nonzero, n_pairs, mat_tail >>
    /\ UNCHANGED << b2pVars, pcrVars, fpVars, hdrVars, spVars >>

NextP2M == P2MStart \/ SortWrite \/ P2MRow \/ P2MFlush \/ P2MFixHeader

SpecP2M == InitP2M /\ [][NextP2M]_vars

\* ------------------------------------- full_pipeline sort and filter_pcr_dup

\* Read identifiers and coordinate columns (chr1, pos1, chr2, pos2, strand1,
\* strand2, frag1, frag2) of the rows explored in pairs_idx_file.  The second
\* tuple differs from the first in strand2 only; the third has a pos1 that
\* follows 9 as a number and precedes it as text.
PcrIds == {"1", "2", "3"}
PcrCoords ==
    { << "seq1", "9", "seq1", "12", "+", "+", "0", "1" >>,
      << "seq1", "9", "seq1", "12", "+", "-", "0", "1" >>,
      << "seq1", "10", "seq1", "12", "+", "+", "0", "1" >> }
PcrRows == { [kind |-> "row", fields |-> <<id>> \o c] : id \in PcrIds, c \in PcrCoords }

\* The keys full_pipeline passes to sort_pairs.
pipeline_keys == << "chr1", "pos1", "chr2", "pos2" >>

\* coord_cols: the columns compared, every column but readID.
coord_cols == SelectSeq(paircols, LAMBDA c : c # "readID")

\* restval of csv.DictReader: the value (None) of a column the line lacks.
restval == "None"

\* csv.DictReader with fieldnames=paircols: the dict of a line.  A column
\* the line lacks gets restval; the columns the line has beyond paircols are
\* kept as a list under restkey (the key is absent when there are none).
pair_reader(line) ==
    [c \in { paircols[i] : i \in 1..Len(paircols) } \cup {"restkey"} |->
        IF c = "restkey"
        THEN SubSeq(line.fields, Len(paircols) + 1, Len(line.fields))
        ELSE LET i == CHOOSE j \in 1..Len(paircols) : paircols[j] = c
             IN  IF i <= Len(line.fields) THEN line.fields[i] ELSE restval]

\* Mutant: the writer puts strand2 before strand1.
filt_writer_swapped(pair) ==
    [ kind |-> "row",
      fields |-> << pair.readID, pair.chr1, pair.pos1, pair.chr2, pair.pos2,
                    pair.strand2, pair.strand1, pair.frag1, pair.frag2 >> ]

\* csv.DictWriter with fieldnames=paircols: the line of a dict; None is
\* written as the empty text.
filt_writer(pair) ==
    [ kind |-> "row",
      fields |-> [i \in 1..Len(paircols) |->
                    IF pair[paircols[i]] = restval THEN "" ELSE pair[paircols[i]]] ]

\* Mutant: strand2 is left out of the comparison.
SameCoordsNoStrand2(pair, prv) ==
    \A i \in 1..Len(coord_cols) :
        coord_cols[i] = "strand2" \/ pair[coord_cols[i]] = prv[coord_cols[i]]

\* Mutant: readID takes part in the comparison.
SameCoordsAndId(pair, prv) ==
    \A i \in 1..Len(paircols) : pair[paircols[i]] = prv[paircols[i]]

\* `all(pair[pair_var] == prev[pair_var] for pair_var in coord_cols)`.
SameCoords(pair, prv) ==
    \A i \in 1..Len(coord_cols) : pair[coord_cols[i]] = prv[coord_cols[i]]

\* Two families of runs: filter_pcr_dup called on a pairs file as it is (as
\* the test does), and full_pipeline, which sorts pairs_idx by coordinates
\* before it calls filter_pcr_dup on it.
PCRCalled(RowSet) ==
    /\ B2POff
    /\ P2MOff
    /\ FPOff
    /\ HdrOff
    /\ SortOff
    /\ from_pipeline \in BOOLEAN
    /\ pcr_pc = IF from_pipeline THEN "sort" ELSE "start"
    /\ \E n \in 0..MaxRows : \E rows \in [1..n -> RowSet] :
          pairs_idx = IdxHeader \o rows
    /\ idx_sort_left = <<>>
    /\ idx_before = <<>>
    /\ filtered = <<>>
    /\ prev = [c \in { paircols[i] : i \in 1..Len(paircols) } |-> int_zero]
    /\ pcr_cursor = 0
    /\ filter_count = 0
    /\ reads_count = 0
    /\ applications = 0

InitPCR == PCRCalled(PcrRows)

\* full_pipeline: sort_pairs(pairs_idx, pairs_idx + ".sorted", keys) and
\* os.rename(pairs_idx + ".sorted", pairs_idx).  sort_pairs returns once the
\* header is written; the rename can come before grep has opened pairs_idx,
\* and grep then reads the renamed file, which holds header lines only.
PipelineSort ==
    /\ pcr_pc = "sort"
    /\ pairs_idx' = sort_pairs(pairs_idx, pipeline_keys)
    /\ \E grep_late \in BOOLEAN :
          idx_sort_left' = IF grep_late THEN <<>>
                           ELSE sort_cmd(pairs_idx, pipeline_keys)
    /\ idx_before' = SelectSeq(pairs_idx, IsData)
    /\ pcr_pc' = "start"
    /\ UNCHANGED << from_pipeline, filtered, prev, pcr_cursor, filter_count,
                    reads_count, applications >>
    /\ UNCHANGED << b2pVars, p2mVars, fpVars, hdrVars, spVars >>

\* The sort subprocess of full_pipeline writes its next row; the file it
\* writes to has been renamed to pairs_idx.
PipelineSortWrite ==
    /\ pcr_pc \in {"start", "loop", "done", "raised"}
    /\ idx_sort_left # <<>>
    /\ pairs_idx' = Append(pairs_idx, Head(idx_sort_left))
    /\ idx_sort_left' = Tail(idx_sort_left)
    /\ UNCHANGED << pcr_pc, from_pipeline, idx_before, filtered, prev, pcr_cursor,
                    filter_count, reads_count, applications >>
    /\ UNCHANGED << b2pVars, p2mVars, fpVars, hdrVars, spVars >>

\* filter_pcr_dup up to the for loop: the header lines are copied.
PCRStart ==
    /\ pcr_pc = "start"
    /\ filter_count' = 0
    /\ reads_count' = 0
    /\ filtered' = get_pairs_header(pairs_idx)
    /\ pcr_cursor' = Len(get_pairs_header(pairs_idx))
    /\ prev' = [c \in { paircols[i] : i \in 1..Len(paircols) } |-> int_zero]
    /\ applications' = applications + 1
    /\ pcr_pc' = "loop"
    /\ UNCHANGED << from_pipeline, pairs_idx, idx_sort_left, idx_before >>
    /\ UNCHANGED << b2pVars, p2mVars, fpVars, hdrVars, spVars >>

\* One turn of `for pair in pair_reader`.  filt_writer.writerow raises a
\* ValueError for a dict with a key that is not in paircols.
PCRRow ==
    /\ pcr_pc = "loop"
    /\ pcr_cursor < Len(pairs_idx)
    /\ LET pair == pair_reader(pairs_idx[pcr_cursor + 1])
       IN  /\ reads_count' = reads_count + 1
           /\ IF SameCoords(pair, prev)
              THEN /\ filter_count' = filter_count + 1
                   /\ UNCHANGED << filtered, prev >>
                   /\ UNCHANGED pcr_pc
              ELSE IF pair.restkey # <<>>
              THEN /\ pcr_pc' = "raised"
                   /\ UNCHANGED << filtered, prev, filter_count >>
              ELSE /\ filtered' = Append(filtered, filt_writer(pair))
                   /\ prev' = pair
                   /\ UNCHANGED << filter_count, pcr_pc >>
    /\ pcr_cursor' = pcr_cursor + 1
    /\ UNCHANGED << from_pipeline, pairs_idx, idx_sort_left, idx_before, applications >>
    /\ UNCHANGED << b2pVars, p2mVars, fpVars, hdrVars, spVars >>

\* The reader finds the end of the file as it stands; the final log line
\* divides filter_count by reads_count.
PCREnd ==
    /\ pcr_pc = "loop"
    /\ pcr_cursor >= Len(pairs_idx)
    /\ pcr_pc' = IF reads_count = 0 THEN "raised" ELSE "done"
    /\ UNCHANGED << from_pipeline, pairs_idx, idx_sort_left, idx_before, filtered, prev,
                    pcr_cursor, filter_count, reads_count, applications >>
    /\ UNCHANGED << b2pVars, p2mVars, fpVars, hdrVars, spVars >>

\* filter_pcr_dup is applied to its own output (direct runs).
Reapply ==
    /\ pcr_pc = "done"
    /\ ~from_pipeline
    /\ applications = 1
    /\ pairs_idx' = filtered
    /\ filtered' = <<>>
    /\ pcr_pc' = "start"
    /\ UNCHANGED << from_pipeline, idx_sort_left, idx_before, prev, pcr_cursor, filter_count,
                    reads_count, applications >>
    /\ UNCHANGED << b2pVars, p2mVars, fpVars, hdrVars, spVars >>

NextPCR ==
    PipelineSort \/ PipelineSortWrite \/ PCRStart \/ PCRRow \/ PCREnd \/ Reapply

SpecPCR == InitPCR /\ [][NextPCR]_vars

\* --------------------------------- pairs files with rows of any column count

\* Rows of nine columns, a row of eight columns (no frag2) and a row of ten
\* columns.  A pairs file is text that comes from the user or from an
\* earlier stage; neither function checks the column count of a row.
WideRows ==
    { [kind |-> "row",
       fields |-> << id, "seq1", "9", "seq1", "12", "+", "+", "0", f2 >>] :
         id \in {"1", "2"}, f2 \in {"0", "9"} }
    \cup { [kind |-> "row", fields |-> << "1", "seq1", "9", "seq1", "12", "+", "+", "9" >>],
           [kind |-> "row",
            fields |-> << "2", "seq1", "9", "seq1", "12", "+", "+", "0", "9", "1" >>] }

InitAnyRows == PCRCalled(WideRows) \/ P2MCalled(WideRows)

NextAnyRows == NextPCR \/ NextP2M

SpecAnyRows == InitAnyRows /\ [][NextAnyRows]_vars

\* ------------------------------------------------------- get_pairs_header

MaxLines == 3

\* The lines explored: a '#' line, a '#' line that ends with a space, a '#'
\* line that ends with two, and a data row.
HdrLines ==
    { HeaderLine(<< "## pairs format v1.0" >>),
      HeaderLine(<< "#sorted:", "readID", "" >>),
      HeaderLine(<< "#chromsize:", "seq1", "60", "", "" >>),
      [kind |-> "row", fields |-> << "1", "seq1", "9", "seq1", "12", "+", "+" >>] }

\* get_pairs_header is called on a pairs file of at most MaxLines lines, in
\* any order.
InitHdr ==
    /\ B2POff
    /\ P2MOff
    /\ PCROff
    /\ FPOff
    /\ SortOff
    /\ hdr_pc = "start"
    /\ \E n \in 0..MaxLines : hdr_file \in [1..n -> HdrLines]
    /\ hdr_header = <<>>

\* The call and its return.
GetPairsHeader ==
    /\ hdr_pc = "start"
    /\ hdr_header' = get_pairs_header(hdr_file)
    /\ hdr_pc' = "returned"
    /\ UNCHANGED hdr_file
    /\ UNCHANGED << b2pVars, p2mVars, pcrVars, fpVars, spVars >>

NextHdr == GetPairsHeader

SpecHdr == InitHdr /\ [][NextHdr]_vars

\* ------------------------------------------------ sort_pairs with any keys

\* Key names explored: three column names of key_map and a name it lacks.
KeyNames == { "readID", "pos1", "frag1", "frag3" }

\* The key lists explored: one or two names.
KeyLists == { << k >> : k \in KeyNames } \cup { << k, l >> : k \in KeyNames, l \in KeyNames }

\* The data rows explored: they differ in readID and in pos1.
SortRowSet ==
    { [kind |-> "row", fields |-> << "1", "seq1", "10", "seq1", "12", "+", "+", "0", "1" >>],
      [kind |-> "row", fields |-> << "2", "seq1", "9", "seq1", "12", "+", "+", "0", "1" >>] }

\* sort_pairs(in_file, out_file, keys) is called; out_file does not exist.
InitSort ==
    /\ B2POff
    /\ P2MOff
    /\ PCROff
    /\ FPOff
    /\ HdrOff
    /\ sp_pc = "start"
    /\ sp_keys \in KeyLists
    /\ \E n \in 0..MaxRows : \E rows \in [1..n -> SortRowSet] : sp_in = IdxHeader \o rows
    /\ sp_exists = FALSE
    /\ sp_out = <<>>
    /\ sp_started = {}
    /\ sp_sort_left = <<>>

\* "transform column names to corresponding sort keys": map() builds an
\* iterator and calls its function on no key yet, so the try block ends
\* without a KeyError whatever the keys are.
SPTranslate ==
    /\ sp_pc = "start"
    /\ sp_pc' = "header"
    /\ UNCHANGED << sp_keys, sp_in, sp_exists, sp_out, sp_started, sp_sort_left >>
    /\ UNCHANGED << b2pVars, p2mVars, pcrVars, fpVars, hdrVars >>

\* "Rewrite header with new sorting order": out_file is opened for writing
\* and gets the header lines.
SPWriteHeader ==
    /\ sp_pc = "header"
    /\ sp_exists' = TRUE
    /\ sp_out' = sort_pairs(sp_in, sp_keys)
    /\ sp_pc' = "popen"
    /\ UNCHANGED << sp_keys, sp_in, sp_started, sp_sort_left >>
    /\ UNCHANGED << b2pVars, p2mVars, pcrVars, fpVars, hdrVars >>

\* "Sort pairs and append to file": grep is started; the argument list of
\* sort is then built with list(sort_keys), which looks the keys up in
\* key_map and raises the KeyError of a name that is not there; else sort
\* is started, and sort_pairs returns.
SPPopen ==
    /\ sp_pc = "popen"
    /\ IF \A i \in 1..Len(sp_keys) : sp_keys[i] \in DOMAIN key_map
       THEN /\ sp_started' = sp_started \cup { "grep", "sort" }
            /\ sp_sort_left' = sort_cmd(sp_in, sp_keys)
            /\ sp_pc' = "returned"
       ELSE /\ sp_started' = sp_started \cup { "grep" }
            /\ sp_sort_left' = sp_sort_left
            /\ sp_pc' = "raised"
    /\ UNCHANGED << sp_keys, sp_in, sp_exists, sp_out >>
    /\ UNCHANGED << b2pVars, p2mVars, pcrVars, fpVars, hdrVars >>

\* The sort subprocess appends its next row to out_file.
SPSortWrite ==
    /\ sp_pc = "returned"
    /\ sp_sort_left # <<>>
    /\ sp_out' = Append(sp_out, Head(sp_sort_left))
    /\ sp_sort_left' = Tail(sp_sort_left)
    /\ UNCHANGED << sp_pc, sp_keys, sp_in, sp_exists, sp_started >>
    /\ UNCHANGED << b2pVars, p2mVars, pcrVars, fpVars, hdrVars >>

NextSort == SPTranslate \/ SPWriteHeader \/ SPPopen \/ SPSortWrite

SpecSort == InitSort /\ [][NextSort]_vars

\* ---------------------------------------------- full_pipeline, stage by stage

\* The stages dict: the rank of each value of start_stage.
stages == [ fastq |-> 0, bam |-> 1, pairs |-> 2, pairs_idx |-> 3 ]

\* Mutant: a block guarded by `start_stage <= n` runs only below n.
StartsBefore(n) == stages[start_stage] < n

\* `start_stage <= n`, the guard of the blocks that start_stage can skip.
StartsAtOrBefore(n) == stages[start_stage] <= n

\* The value None of Python.
py_None == "None"

\* The aligner names explored (the last is not one full_pipeline knows) and
\* the programs that PATH may hold.
Aligners == { "bowtie2", "minimap2", "bwa" }
Tools == { "bowtie2", "minimap2", "samtools" }

\* check_tool(name): `which(name) is not None`, a bool.
check_tool(name) == IF name \in on_path THEN "True" ELSE "False"

\* The paths given as input1 and input2.  Reads and alignments come as two
\* files; a pairs file comes alone, and input2 keeps its default.
input1 == "input1"
input2 == IF stages[start_stage] <= 1 THEN "input2" ELSE py_None

\* The file names of full_pipeline after "Define what input files are
\* given": the temporary names, but for those start_stage gives to an input.
paths ==
    [ tmp_genome |-> "tmp/genome.fasta",
      bam1 |-> IF stages[start_stage] = 1 THEN input1 ELSE "tmp/for.bam",
      bam2 |-> IF stages[start_stage] = 1 THEN input2 ELSE "tmp/rev.bam",
      pairs |-> IF stages[start_stage] = 2 THEN input1 ELSE "tmp/valid.pairs",
      pairs_idx |-> IF stages[start_stage] = 3 THEN input1 ELSE "tmp/valid_idx.pairs",
      pairs_filtered |-> "tmp/valid_idx_filtered.pairs",
      pairs_pcr |-> "tmp/valid_idx_pcrfree.pairs",
      fragments_list |-> "out/fragments_list.txt",
      info_contigs |-> "out/info_contigs.txt",
      mat |-> "out/abs_fragments_contacts_weighted.txt",
      distance_law |-> "out/distance_law.txt" ]

InitFP ==
    /\ B2POff
    /\ P2MOff
    /\ PCROff
    /\ HdrOff
    /\ SortOff
    /\ fp_pc = "check"
    /\ start_stage \in DOMAIN stages
    /\ fp_opts \in [ filter_events : BOOLEAN, pcr_duplicates : BOOLEAN,
                     distance_law : BOOLEAN, no_cleanup : BOOLEAN ]
    /\ fragments_updated = FALSE
    /\ use_pairs = "pairs_idx"
    /\ fp_ran = <<>>
    /\ aligner \in Aligners
    /\ on_path \in SUBSET Tools
    /\ fp_log = <<>>
    /\ fp_written = {}
    /\ fp_removed = {}
    /\ matrix_input = ""

\* "Check if third parties can be run", then the extraction of the genome
\* from the bowtie2 index into tmp_genome, which ends the run (sys.exit) when
\* bowtie2-inspect reports an error.
FPCheckTools ==
    /\ fp_pc = "check"
    /\ fp_log' =
          (IF aligner \in { "bowtie2", "minimap2" }
           THEN (IF check_tool(aligner) = py_None
                 THEN << "aligner is not installed or not on PATH" >> ELSE <<>>)
           ELSE << "Incompatible aligner software" >>)
          \o (IF check_tool("samtools") = py_None
              THEN << "Samtools is not installed or not on PATH" >> ELSE <<>>)
    /\ IF aligner = "bowtie2"
       THEN /\ fp_written' = fp_written \cup { paths.tmp_genome }
            /\ \E failed \in BOOLEAN : fp_pc' = IF failed THEN "raised" ELSE "align"
       ELSE /\ fp_written' = fp_written
            /\ fp_pc' = "align"
    /\ UNCHANGED << start_stage, fp_opts, fragments_updated, use_pairs, fp_ran,
                    aligner, on_path, fp_removed, matrix_input >>
    /\ UNCHANGED << b2pVars, p2mVars, pcrVars, hdrVars, spVars >>

\* One block of full_pipeline: if its guard holds, the calls of the block are
\* made in order, the k-th of them may raise (k = 0: none does), and the
\* exception ends full_pipeline; the block at control point `next` follows.
\* outs[i] is the set of paths the i-th call writes.
Block(at, guard, todo, outs, next) ==
    /\ fp_pc = at
    /\ IF guard
       THEN \E k \in 0..Len(todo) :
               LET made == IF k = 0 THEN Len(todo) ELSE k
               IN  /\ fp_ran' = fp_ran \o SubSeq(todo, 1, made)
                   /\ fp_written' = fp_written \cup UNION { outs[i] : i \in 1..made }
                   /\ fp_pc' = IF k = 0 THEN next ELSE "raised"
       ELSE /\ fp_ran' = fp_ran
            /\ fp_written' = fp_written
            /\ fp_pc' = next

\* `if start_stage == 0`: alignment of both read files and name sorting
\* (samtools sort to bam + ".sorted", moved over bam).
FPAlign ==
    /\ Block("align", stages[start_stage] = 0,
             << "align_reads", "align_reads", "samtools sort", "samtools sort" >>,
             << { paths.bam1 }, { paths.bam2 }, { paths.bam1 }, { paths.bam2 } >>,
             "bam")
    /\ UNCHANGED << start_stage, fp_opts, fragments_updated, use_pairs,
                    aligner, on_path, fp_log, fp_removed, matrix_input >>
    /\ UNCHANGED << b2pVars, p2mVars, pcrVars, hdrVars, spVars >>

\* `if start_stage <= 1`: fragments files and bam2pairs.
FPBam ==
    /\ Block("bam", StartsAtOrBefore(1),
             << "write_frag_info", "frag_len", "bam2pairs" >>,
             << { paths.info_contigs, paths.fragments_list }, {}, { paths.pairs } >>,
             "pairs")
    /\ fragments_updated' = (fragments_updated \/ StartsAtOrBefore(1))
    /\ UNCHANGED << start_stage, fp_opts, use_pairs,
                    aligner, on_path, fp_log, fp_removed, matrix_input >>
    /\ UNCHANGED << b2pVars, p2mVars, pcrVars, hdrVars, spVars >>

\* `if start_stage <= 2`: fragment attribution.
FPAttribute ==
    /\ Block("pairs", StartsAtOrBefore(2),
             << "get_restriction_table", "attribute_fragments" >>,
             << {}, { paths.pairs_idx } >>,
             "sort")
    /\ UNCHANGED << start_stage, fp_opts, fragments_updated, use_pairs,
                    aligner, on_path, fp_log, fp_removed, matrix_input >>
    /\ UNCHANGED << b2pVars, p2mVars, pcrVars, hdrVars, spVars >>

\* The coordinate sort of pairs_idx into pairs_idx + ".sorted" and the rename
\* of that file over pairs_idx.
FPSort ==
    /\ Block("sort", TRUE, << "sort_pairs", "rename" >>,
             << { paths.pairs_idx \o ".sorted" }, { paths.pairs_idx } >>,
             "filter_events")
    /\ UNCHANGED << start_stage, fp_opts, fragments_updated, use_pairs,
                    aligner, on_path, fp_log, fp_removed, matrix_input >>
    /\ UNCHANGED << b2pVars, p2mVars, pcrVars, hdrVars, spVars >>

\* Mutant: use_pairs is pairs_idx whether or not the events are filtered.
UsePairsAlwaysIdx == "pairs_idx"

\* use_pairs after `if filter_events: ... else: ...`.
UsePairsAfterEvents ==
    IF fp_opts.filter_events THEN "pairs_filtered" ELSE "pairs_idx"

\* `if filter_events`, and the choice of use_pairs.
FPFilterEvents ==
    /\ Block("filter_events", fp_opts.filter_events,
             << "get_thresholds", "filter_events" >>,
             << {}, { paths.pairs_filtered } >>,
             "frag_info")
    /\ use_pairs' = IF fp_pc' # "raised" THEN UsePairsAfterEvents ELSE use_pairs
    /\ UNCHANGED << start_stage, fp_opts, fragments_updated,
                    aligner, on_path, fp_log, fp_removed, matrix_input >>
    /\ UNCHANGED << b2pVars, p2mVars, pcrVars, hdrVars, spVars >>

\* Mutant: the fragments files are written again whatever happened before.
FragInfoAlways == TRUE

\* `if not fragments_updated`.
FragInfoMissing == ~fragments_updated

\* `if not fragments_updated`: the fragments files are written now.
FPFragInfo ==
    /\ Block("frag_info", FragInfoMissing, << "write_frag_info" >>,
             << { paths.info_contigs, paths.fragments_list } >>,
             "distance_law")
    /\ UNCHANGED << start_stage, fp_opts, fragments_updated, use_pairs,
                    aligner, on_path, fp_log, fp_removed, matrix_input >>
    /\ UNCHANGED << b2pVars, p2mVars, pcrVars, hdrVars, spVars >>

\* `if distance_law`.
FPDistanceLaw ==
    /\ Block("distance_law", fp_opts.distance_law, << "get_distance_law" >>,
             << { paths.distance_law } >>, "pcr")
    /\ UNCHANGED << start_stage, fp_opts, fragments_updated, use_pairs,
                    aligner, on_path, fp_log, fp_removed, matrix_input >>
    /\ UNCHANGED << b2pVars, p2mVars, pcrVars, hdrVars, spVars >>

\* `if pcr_duplicates`.
FPPcr ==
    /\ Block("pcr", fp_opts.pcr_duplicates, << "filter_pcr_dup" >>,
             << { paths.pairs_pcr } >>, "matrix")
    /\ use_pairs' = IF fp_opts.pcr_duplicates /\ fp_pc' # "raised"
                    THEN "pairs_pcr" ELSE use_pairs
    /\ UNCHANGED << start_stage, fp_opts, fragments_updated,
                    aligner, on_path, fp_log, fp_removed, matrix_input >>
    /\ UNCHANGED << b2pVars, p2mVars, pcrVars, hdrVars, spVars >>

\* The matrix is built from use_pairs.
FPMatrix ==
    /\ Block("matrix", TRUE, << "pairs2matrix" >>,
             << { paths.mat, paths.mat \o ".pre.pairs" } >>, "cleanup")
    /\ matrix_input' = use_pairs
    /\ UNCHANGED << start_stage, fp_opts, fragments_updated, use_pairs,
                    aligner, on_path, fp_log, fp_removed >>
    /\ UNCHANGED << b2pVars, p2mVars, pcrVars, hdrVars, spVars >>

RECURSIVE list_remove(_, _)
\* list.remove(x): the list without the first occurrence of x.
list_remove(l, x) ==
    IF Head(l) = x THEN Tail(l) ELSE << Head(l) >> \o list_remove(Tail(l), x)

\* Mutant: the inputs are left in the list.
KeepInputsNot(tempfiles) == tempfiles

\* "Do not delete files that were given as input": input1, then input2, is
\* taken out of tempfiles; the ValueError of list.remove for a value that is
\* not in the list ends the try block.
KeepInputs(tempfiles) ==
    IF \A i \in 1..Len(tempfiles) : tempfiles[i] # input1
    THEN tempfiles
    ELSE LET rest == list_remove(tempfiles, input1)
         IN  IF \A i \in 1..Len(rest) : rest[i] # input2
             THEN rest
             ELSE list_remove(rest, input2)

\* The tempfiles list of the cleanup.
tempfiles ==
    << paths.pairs, paths.pairs_idx, paths.pairs_filtered, paths.bam1, paths.bam2,
       paths.pairs_pcr, paths.tmp_genome >>

\* `if not no_cleanup`: os.remove on each file left in tempfiles, a missing
\* file being passed over; another error of os.remove ends the run with the
\* files before it removed.
FPCleanup ==
    /\ Block("cleanup", ~fp_opts.no_cleanup, << "remove" >>, << {} >>, "done")
    /\ LET left == KeepInputs(tempfiles)
       IN  IF fp_opts.no_cleanup
           THEN fp_removed' = fp_removed
           ELSE IF fp_pc' = "raised"
           THEN \E n \in 0..(Len(left) - 1) :
                   fp_removed' = fp_removed \cup { left[i] : i \in 1..n }
           ELSE fp_removed' = fp_removed \cup { left[i] : i \in 1..Len(left) }
    /\ UNCHANGED << start_stage, fp_opts, fragments_updated, use_pairs,
                    aligner, on_path, fp_log, matrix_input >>
    /\ UNCHANGED << b2pVars, p2mVars, pcrVars, hdrVars, spVars >>

NextFP ==
    \/ FPCheckTools
    \/ FPAlign \/ FPBam \/ FPAttribute \/ FPSort \/ FPFilterEvents
    \/ FPFragInfo \/ FPDistanceLaw \/ FPPcr \/ FPMatrix \/ FPCleanup

SpecFP == InitFP /\ [][NextFP]_vars

\* ------------------------------------------------- properties of bam2pairs

Terminated == pc \in {"done", "raised"}

IsRow(l) == l.kind = "row"

\* The data rows of the pairs file, in file order.
Rows == SelectSeq(pairs, IsRow)

Range(s) == { s[i] : i \in 1..Len(s) }

\* The column names the "#columns:" header line of the pairs file declares,
\* and the field of a row that the declaration gives to a column name.
Columns ==
    Tail((CHOOSE l \in Range(pairs) : l.kind = "header" /\ l.text[1] = "#columns:").text)
Col(row, name) == row.fields[CHOOSE i \in 1..Len(Columns) : Columns[i] = name]

RowNames == [i \in 1..Len(Rows) |-> Col(Rows[i], "readID")]

RECURSIVE Ascending(_)
\* The members of a finite set of naturals, in ascending order.
Ascending(S) ==
    IF S = {} THEN <<>>
    ELSE LET m == CHOOSE x \in S : \A y \in S : x <= y
         IN  <<m>> \o Ascending(S \ {m})

\* Identifiers present in both files with both qualities at or above min_qual.
GoodInBoth ==
    { n \in 1..MaxName :
        \E q1 \in Quals, q2 \in Quals :
            /\ <<n, q1>> \in Range(consumed[1])
            /\ <<n, q2>> \in Range(consumed[2])
            /\ q1 >= min_qual
            /\ q2 >= min_qual }

\* Identifiers present in both files with a quality below min_qual.
BadInBoth ==
    { n \in 1..MaxName :
        \E q1 \in Quals, q2 \in Quals :
            /\ <<n, q1>> \in Range(consumed[1])
            /\ <<n, q2>> \in Range(consumed[2])
            /\ (q1 < min_qual \/ q2 < min_qual) }

\* C1: on name-sorted files without repeated identifiers, the rows written
\* when bam2pairs ends are exactly one per identifier that is in both files
\* with both qualities >= min_qual, in ascending identifier order.
C1_SortedMergeEmitsExactlyGoodMatches ==
    (nameSorted /\ Terminated) => RowNames = Ascending(GoodInBoth)

\* A finished name-sorted run in which a matched pair failed the quality
\* gate, a read had no mate, and a later pair was still written.
C1_Witness ==
    /\ nameSorted
    /\ pc = "done"
    /\ unmatched_reads >= 1
    /\ \E b \in BadInBoth : \E g \in GoodInBoth : b < g
    /\ Len(Rows) >= 1

\* C2: a row is written only when both current records exist (no file is
\* exhausted), their identifiers are equal and both qualities are >= min_qual.
C2_RowOnlyForGoodMatch ==
    [][ pairs' # pairs =>
          /\ end1 # None /\ end2 # None
          /\ ~exhausted[1] /\ ~exhausted[2]
          /\ end1.query_name = end2.query_name
          /\ end1.mapping_quality >= min_qual
          /\ end2.mapping_quality >= min_qual ]_vars

\* A row has just been written, in a run over files that are not sorted,
\* for two ends whose quality is exactly min_qual.
C2_Witness ==
    /\ ~nameSorted
    /\ disorder
    /\ pc = "zip"
    /\ end1 # None /\ end2 # None
    /\ Len(Rows) >= 1
    /\ Col(Rows[Len(Rows)], "readID") = end1.query_name
    /\ end1.query_name = end2.query_name
    /\ end1.mapping_quality = min_qual
    /\ end2.mapping_quality = min_qual

\* reference_id of a reference name.
RefIdOf(name) == CHOOSE i \in 0..(Len(Contigs) - 1) : Contigs[i + 1].contig = name

\* What a row shows of one end: reference name, 1-based position, strand.
Shown(e) == << reference_name(e), e.reference_start + 1,
               IF e.is_reverse THEN "-" ELSE "+" >>

\* (reference_id, position) of the first end <= that of the second end.
UpperTriangle(row) ==
    \/ RefIdOf(Col(row, "chr1")) < RefIdOf(Col(row, "chr2"))
    \/ /\ RefIdOf(Col(row, "chr1")) = RefIdOf(Col(row, "chr2"))
       /\ int(Col(row, "pos1")) <= int(Col(row, "pos2"))

\* C3: every row written is in upper-triangle order, and its two ends are
\* the two current records taken whole (name, position and strand of an end
\* stay together), in one order or the other.
C3_RowsUpperTriangle ==
    [][ pairs' # pairs =>
          LET row == pairs'[Len(pairs')]
              a == << Col(row, "chr1"), int(Col(row, "pos1")), Col(row, "strand1") >>
              b == << Col(row, "chr2"), int(Col(row, "pos2")), Col(row, "strand2") >>
          IN  /\ UpperTriangle(row)
              /\ \/ a = Shown(end1) /\ b = Shown(end2)
                 \/ a = Shown(end2) /\ b = Shown(end1) ]_vars

\* A row has just been written with the ends swapped: its first end was
\* read from the reverse file, and the ends differ in reference, position
\* and strand.
C3_Witness ==
    /\ pc = "zip"
    /\ Len(Rows) >= 1
    /\ end1 # None /\ end2 # None
    /\ end1.source = 2 /\ end2.source = 1
    /\ Col(Rows[Len(Rows)], "readID") = end1.query_name
    /\ end1.reference_id < end2.reference_id
    /\ end1.reference_start > end2.reference_start
    /\ end1.is_reverse # end2.is_reverse

\* C4: when both files are live and the identifiers differ, the step reads
\* only the file whose identifier is smaller, leaves the other lookahead
\* record alone, adds one to unmatched_reads and writes no row.
C4_ResyncAdvancesSmaller ==
    [][ (pc = "while" /\ ~exhausted[1] /\ ~exhausted[2]
            /\ end1.query_name # end2.query_name) =>
          LET small == IF end1.query_name < end2.query_name THEN 1 ELSE 2
              other == 3 - small
          IN  /\ calls'[small] = calls[small] + 1
              /\ calls'[other] = calls[other]
              /\ pulled'[other] = pulled[other]
              /\ \/ pulled'[small] = pulled[small] + 1 /\ ~exhausted'[small]
                 \/ pulled'[small] = pulled[small] /\ exhausted'[small]
              /\ IF small = 1 THEN end2' = end2 ELSE end1' = end1
              /\ ~exhausted'[other]
              /\ unmatched_reads' = unmatched_reads + 1
              /\ pairs' = pairs ]_vars

\* A resynchronisation has read one file more often than the other and
\* brought the two identifiers to match.
C4_Witness ==
    /\ pc = "while"
    /\ unmatched_reads >= 1
    /\ ~exhausted[1] /\ ~exhausted[2]
    /\ end1.query_name = end2.query_name
    /\ pulled[1] # pulled[2]

\* C5: once a file is exhausted no row is written any more, and bam2pairs
\* ends only when both files have been read to their end.
C5_NoRowAfterExhaustion ==
    /\ [][ (exhausted[1] \/ exhausted[2]) => pairs' = pairs ]_vars
    /\ [](Terminated => (eof[1] /\ eof[2]))

\* bam2pairs has ended after one file ran out in the middle of a
\* resynchronisation while the other still held records.
C5_Witness ==
    /\ pc = "done"
    /\ exhausted[1] /\ ~exhausted[2]
    /\ calls[1] = pulled[1] + 2
    /\ pulled[2] > pulled[1]

\* Rank of a control point, and a measure of the work bam2pairs has left:
\* records not read yet, files zip_longest still iterates, files not yet
\* marked exhausted.
PcRank == CASE pc = "zip" -> 1 [] pc = "while" -> 2 [] pc = "report" -> 1 [] OTHER -> 0
Count(f) == (IF f[1] THEN 1 ELSE 0) + (IF f[2] THEN 1 ELSE 0)
Variant ==
    4 * ((MaxLen - pulled[1]) + (MaxLen - pulled[2]))
    + 4 * Count(zipActive)
    + 4 * (2 - Count(exhausted))
    + PcRank

\* C6: bam2pairs terminates: every step strictly decreases a natural-valued
\* measure that is linear in the lengths of the files, and a step is possible
\* until the function has ended.  At its end both files have been read to
\* their end (every record once); the next() calls on a file never exceed its
\* records by more than two; a turn of the while loop reads a record from one
\* file or marks it exhausted.
C6_TerminatesLinearReads ==
    /\ [][ Variant' < Variant ]_vars
    /\ [](Variant >= 0)
    /\ [](Terminated \/ ENABLED NextB2P)
    /\ [](Terminated => (eof[1] /\ eof[2]))
    /\ [](calls[1] <= pulled[1] + 2 /\ calls[2] <= pulled[2] + 2)
    /\ [][ (pc = "while" /\ pc' = "while") =>
             \E i \in {1, 2} :
                \/ pulled'[i] = pulled[i] + 1 /\ calls'[i] = calls[i] + 1
                \/ ~exhausted[i] /\ exhausted'[i] ]_vars

\* The same termination, stated as a liveness property of the fair run.
B2P_Terminates == <>Terminated

\* bam2pairs has ended on two name-sorted files that hold several records
\* and have no identifier in common.
C6_Witness ==
    /\ pc = "done"
    /\ nameSorted
    /\ pulled[1] + pulled[2] >= 3
    /\ pulled[1] >= 1 /\ pulled[2] >= 1
    /\ \A x \in Range(consumed[1]) : \A y \in Range(consumed[2]) : x[1] # y[1]

\* C7: a run in which a file yielded an identifier smaller than one it had
\* yielded before does not complete normally (it aborts with an error).
C7_DisorderAborts == (pc = "done") => ~disorder

\* ---------------------------------------------- properties of pairs2matrix

\* The data rows of the sorted file that the for loop has read.
Streamed ==
    LET n == IF cursor <= Len(pre_mat_file) THEN cursor ELSE Len(pre_mat_file)
    IN  SelectSeq([i \in 1..n |-> pre_mat_file[i]], IsData)

\* The (frag1, frag2) keys of the streamed rows.
StreamedKeys == { << Streamed[i].fields[8], Streamed[i].fields[9] >> : i \in 1..Len(Streamed) }

\* The entry lines of the matrix file (all lines but the GRAAL header).
Entries == IF mat_fmt = "GRAAL" /\ mat # <<>> THEN Tail(mat) ELSE mat

\* The fragment whose row of the fragments table is (chrom, start, end).
FragAt(chrom, start, end) ==
    CHOOSE i \in 0..(n_frags - 1) :
        /\ frags(i).chrom = chrom
        /\ frags(i).start_pos = int(start)
        /\ frags(i).end_pos = int(end)

\* Key and count of an entry line, in either format.
EntryKey(e) ==
    IF mat_fmt = "GRAAL"
    THEN << e[1], e[2] >>
    ELSE << str(FragAt(e[1], e[2], e[3])), str(FragAt(e[4], e[5], e[6])) >>
EntryCount(e) == int(e[Len(e)])

RECURSIVE SumCounts(_)
SumCounts(es) == IF es = <<>> THEN 0 ELSE EntryCount(Head(es)) + SumCounts(Tail(es))

\* Number of streamed rows whose key is k.
RowsWithKey(k) ==
    Cardinality({ i \in 1..Len(Streamed) : << Streamed[i].fields[8], Streamed[i].fields[9] >> = k })

\* Numeric lexicographic order of two keys.
KeyBefore(k, l) ==
    \/ int(k[1]) < int(l[1])
    \/ int(k[1]) = int(l[1]) /\ int(k[2]) < int(l[2])

\* C8: when the aggregation pass over a non-empty sorted file is over, the
\* entries written are one per distinct (frag1, frag2) key of the rows, the
\* count of an entry is the number of rows with its key, and the counts add
\* up to the number of rows (so the last run has been written too).
C8_OneEntryPerKey ==
    (p2m_pc = "fixup" /\ Streamed # <<>>) =>
        /\ Len(Entries) = Cardinality(StreamedKeys)
        /\ { EntryKey(Entries[i]) : i \in 1..Len(Entries) } = StreamedKeys
        /\ \A i \in 1..Len(Entries) :
              EntryCount(Entries[i]) = RowsWithKey(EntryKey(Entries[i]))
        /\ SumCounts(Entries) = Len(Streamed)

\* The pass is over and has read every row of an input given out of order,
\* with several keys, whose last run holds more than one row.
C8_Witness ==
    /\ p2m_pc = "fixup"
    /\ Len(Streamed) = Len(pairs_file) - Len(IdxHeader)
    /\ pairs_file # IdxHeader \o Streamed
    /\ Cardinality(StreamedKeys) >= 2
    /\ Len(Entries) >= 2
    /\ EntryCount(Entries[Len(Entries)]) >= 2

\* C9: the file pairs2matrix streams is ordered by the numeric value of
\* frag1, then frag2; the entries written are strictly increasing in that
\* order (no key twice) and every entry has a count of at least 1.
C9_EntriesStrictlyIncreasing ==
    /\ (p2m_pc \in {"loop", "fixup"}) =>
          \A i \in 1..Len(Streamed) : \A j \in (i + 1)..Len(Streamed) :
              ~KeyBefore(<< Streamed[j].fields[8], Streamed[j].fields[9] >>,
                         << Streamed[i].fields[8], Streamed[i].fields[9] >>)
    /\ (p2m_pc \in {"loop", "fixup", "done"}) =>
          /\ \A i \in 1..(Len(Entries) - 1) :
                KeyBefore(EntryKey(Entries[i]), EntryKey(Entries[i + 1]))
          /\ \A i \in 1..Len(Entries) : EntryCount(Entries[i]) >= 1

\* pairs2matrix has ended on an input that began with fragment 10 and also
\* held fragment 9: the entry of 9 precedes the entry of 10.
C9_Witness ==
    /\ p2m_pc = "done"
    /\ Len(pairs_file) > Len(IdxHeader) + 1
    /\ pairs_file[Len(IdxHeader) + 1].fields[8] = "10"
    /\ \E i \in 1..(Len(Entries) - 1) :
          /\ EntryKey(Entries[i])[1] = "9"
          /\ EntryKey(Entries[i + 1])[1] = "10"

\* C10: when pairs2matrix ends in GRAAL format on a non-empty input, the
\* count of nonzero entries it reports, written as the third field of the
\* header line, is the number of entry lines after the header.
C10_HeaderCountsEntries ==
    (p2m_pc = "done" /\ mat_fmt = "GRAAL") =>
        /\ n_nonzero = Len(mat) - 1
        /\ mat[1][3] = str(Len(mat) - 1)

\* The data rows of the input pairs file.
InputRows == SelectSeq(pairs_file, IsData)

\* C11: when the aggregation pass over a non-empty sorted file is over, the
\* total pair count n_pairs is the number of data rows the pass has read,
\* whatever the length of the last run of equal keys.
C11_PairCountIsRowCount ==
    (p2m_pc = "fixup" /\ Streamed # <<>>) => n_pairs = Len(Streamed)

\* C12: from the return of sort_pairs on, the sorted file holds the rewritten
\* header followed by every data row of the input in sorted order, and the
\* streaming pass, when it is over, has read every row of the input.
C12_SortedFileCompleteOnReturn ==
    /\ (p2m_pc = "loop") =>
          pre_mat_file = sort_pairs(pairs_file, <<"frag1", "frag2">>) \o sort_cmd(pairs_file, <<"frag1", "frag2">>)
    /\ (p2m_pc \in {"fixup", "raised"}) => Len(Streamed) = Len(InputRows)

\* ------------------------------------------ properties of filter_pcr_dup

\* The data rows of pairs_idx_file that filter_pcr_dup has read, and the data
\* rows it has written.
ReadRows ==
    LET n == IF pcr_cursor <= Len(pairs_idx) THEN pcr_cursor ELSE Len(pairs_idx)
    IN  SelectSeq([i \in 1..n |-> pairs_idx[i]], IsData)
Written == SelectSeq(filtered, IsData)

\* The eight coordinate fields of a row: every field after the identifier.
Coord8(l) == Tail(l.fields)

RECURSIVE Collapse(_, _)
\* The rows that differ in a coordinate field from the row just before them
\* in the input (before: that row, or none for the first row), in input order.
Collapse(rows, before) ==
    IF rows = <<>> THEN <<>>
    ELSE (IF before # <<>> /\ Coord8(Head(rows)) = Coord8(before[1])
          THEN <<>> ELSE << Head(rows) >>)
         \o Collapse(Tail(rows), << Head(rows) >>)

C15_Idempotent ==
    (pcr_pc = "done" /\ applications = 2) =>
        /\ filtered = pairs_idx
        /\ filter_count = 0

\* The second application is over, on an output of several rows of which
\* two, not adjacent, have the same coordinates.
C15_Witness ==
    /\ pcr_pc = "done"
    /\ applications = 2
    /\ Len(Written) >= 3
    /\ Coord8(Written[1]) = Coord8(Written[3])

\* C16: after any prefix of the input, reads_count is the number of records
\* read and equals the number of records written plus filter_count; at the
\* end filter_count is the number of records read whose eight coordinate
\* fields equal those of the record just before them.
C16_CountsAddUp ==
    /\ (pcr_pc \in {"loop", "done", "raised"}) =>
          /\ reads_count = Len(ReadRows)
          /\ reads_count = Len(Written) + filter_count
    /\ (pcr_pc \in {"done", "raised"}) =>
          filter_count =
              Cardinality({ i \in 2..Len(ReadRows) :
                              Coord8(ReadRows[i]) = Coord8(ReadRows[i - 1]) })

\* A direct run is over on one record followed by two records with its
\* coordinates and other identifiers: two are filtered, one is written.
C16_Witness ==
    /\ pcr_pc = "done"
    /\ ~from_pipeline
    /\ applications = 1
    /\ reads_count = 3
    /\ filter_count = 2
    /\ Len(Written) = 1
    /\ ReadRows[2].fields[1] # ReadRows[1].fields[1]

\* C17: when full_pipeline has run filter_pcr_dup, the records it read with
\* equal coordinate tuples were adjacent, and the rows written hold at most
\* one record per coordinate tuple.
C17_PipelineDuplicatesAdjacent ==
    (from_pipeline /\ pcr_pc = "done") =>
        /\ \A i \in 1..Len(ReadRows) : \A j \in (i + 1)..Len(ReadRows) :
              Coord8(ReadRows[i]) = Coord8(ReadRows[j]) =>
                  \A k \in i..j : Coord8(ReadRows[k]) = Coord8(ReadRows[i])
        /\ \A i \in 1..Len(Written) : \A j \in (i + 1)..Len(Written) :
              Coord8(Written[i]) # Coord8(Written[j])

\* ------------------------------------- the file format written by bam2pairs

\* C18: in the file bam2pairs writes, the first lines are the format-version
\* line, "#sorted: readID", the "#columns:" line and one "#chromsize:" line
\* per contig in the row order of info_contigs; every later line is a data
\* row; the header is there from the start, whether or not a pair is written.
C18_HeaderFirstInOrder ==
    (pc # "off") =>
        /\ Len(pairs) >= 3 + Len(Contigs)
        /\ pairs[1] = [kind |-> "header", text |-> <<"## pairs format v1.0">>]
        /\ pairs[2] = [kind |-> "header", text |-> <<"#sorted:", "readID">>]
        /\ pairs[3].kind = "header" /\ pairs[3].text[1] = "#columns:"
        /\ \A i \in 1..Len(Contigs) :
              pairs[3 + i] = [ kind |-> "header",
                               text |-> << "#chromsize:", Contigs[i].contig,
                                           str(Contigs[i].length) >> ]
        /\ \A i \in (4 + Len(Contigs))..Len(pairs) : pairs[i].kind = "row"

\* bam2pairs has ended after reading records from both files without
\* writing a pair: the file holds the header lines only.
C18_Witness ==
    /\ pc = "done"
    /\ pulled[1] >= 1 /\ pulled[2] >= 1
    /\ Len(pairs) = 3 + Len(Contigs)

RECURSIVE RunsOf(_)
\* The runs of equal (frag1, frag2) keys of a sequence of rows, in order:
\* << frag1, frag2, length >> for each maximal run.
RunsOf(rows) ==
    IF rows = <<>> THEN <<>>
    ELSE LET rest == RunsOf(Tail(rows))
             h == Head(rows)
         IN  IF rest # <<>> /\ rest[1][1] = h.fields[8] /\ rest[1][2] = h.fields[9]
             THEN << << h.fields[8], h.fields[9], rest[1][3] + 1 >> >> \o Tail(rest)
             ELSE << << h.fields[8], h.fields[9], 1 >> >> \o rest

\* C20: when the aggregation pass is over, the lines written are determined
\* by the rows read in the same way in both formats, one line per run of
\* equal keys, in order.  In GRAAL format a header line is followed by
\* (frag1, frag2, count) of each run; in bg2 format there is no header line
\* and the line of a run gives (chrom, start_pos, end_pos) of the rows frag1
\* and frag2 of the fragments table, then the same count.
C20_Bg2MirrorsGraal ==
    (p2m_pc = "fixup") =>
        LET runs == RunsOf(Streamed)
        IN  IF mat_fmt = "GRAAL"
            THEN /\ Len(mat) = 1 + Len(runs)
                 /\ Len(mat[1]) = 3
                 /\ \A i \in 1..Len(runs) :
                       mat[1 + i] = << runs[i][1], runs[i][2], str(runs[i][3]) >>
            ELSE /\ Len(mat) = Len(runs)
                 /\ \A i \in 1..Len(runs) :
                       LET f1 == frags(int(runs[i][1]))
                           f2 == frags(int(runs[i][2]))
                       IN  mat[i] = << f1.chrom, str(f1.start_pos), str(f1.end_pos),
                                       f2.chrom, str(f2.start_pos), str(f2.end_pos),
                                       str(runs[i][3]) >>

\* The pass of a bg2 run is over, having read every row of an input with two
\* keys; the first key joins fragments of different contigs and has two rows.
C20_Witness ==
    /\ p2m_pc = "fixup"
    /\ mat_fmt = "bg2"
    /\ Len(Streamed) = Len(InputRows)
    /\ Len(mat) = 2
    /\ mat[1][1] # mat[1][4]
    /\ mat[1][7] = "2"

\* ------------------------------------------- the end of pairs2matrix

\* C21: the header fix-up of a GRAAL run leaves the entry lines as the pass
\* wrote them and makes the first line n_frags, n_frags, n_nonzero; the
\* final file holds these lines and nothing else.
C21_FixupChangesHeaderOnly ==
    /\ [][ (p2m_pc = "fixup" /\ p2m_pc' = "done" /\ mat_fmt = "GRAAL") =>
              /\ mat'[1] = << str(n_frags), str(n_frags), str(n_nonzero) >>
              /\ Tail(mat') = Tail(mat) ]_vars
    /\ [](p2m_pc = "done" /\ mat_fmt = "GRAAL" => mat_tail = <<>>)

\* C23: pairs2matrix on a pairs file without data rows ends normally, with a
\* matrix of no entry: in GRAAL format the header line n_frags, n_frags, 0
\* and nothing else.
C23_EmptyInputEndsNormally ==
    (InputRows = <<>> /\ p2m_pc # "off") =>
        /\ p2m_pc # "raised"
        /\ (p2m_pc = "done" /\ mat_fmt = "GRAAL") =>
              mat = << << str(n_frags), str(n_frags), "0" >> >>
        /\ (p2m_pc = "done" /\ mat_fmt = "bg2") => mat = <<>>

\* ------------------------------------------- the counters of bam2pairs

\* Number of records read from file i whose quality is at or above min_qual
\* (name-sorted runs, whose records are remembered).
GoodRead(i) ==
    Cardinality({ k \in 1..Len(consumed[i]) : consumed[i][k][2] >= min_qual })

\* C29: when bam2pairs is over, n_reads["total"] is the number of records
\* read from the two files together; n_reads["mapped"] never exceeds
\* n_reads["total"].
C29_TotalCountsRecordsRead ==
    /\ Terminated => n_total = pulled[1] + pulled[2]
    /\ (pc # "off") => n_mapped <= n_total

\* bam2pairs has ended on name-sorted files after a resynchronization that
\* skipped records, both files having been read to their end.
C29_Witness ==
    /\ pc = "done"
    /\ nameSorted
    /\ unmatched_reads >= 1
    /\ pulled[1] + pulled[2] >= 4
    /\ eof[1] /\ eof[2]

\* C30: when bam2pairs is over on name-sorted files, n_reads["mapped"] is
\* the number of records read, from either file, whose mapping quality is at
\* or above min_qual.
C30_MappedCountsGoodRecords ==
    (Terminated /\ nameSorted) => n_mapped = GoodRead(1) + GoodRead(2)

\* ------------------------------------------- the stages of full_pipeline

\* Whether full_pipeline has made the call c.
Has(c) == \E i \in 1..Len(fp_ran) : fp_ran[i] = c

\* The order in which the claim lists the stages.
StageRank ==
    [ c \in { "align_reads", "samtools sort", "bam2pairs", "attribute_fragments",
              "sort_pairs", "pairs2matrix" } |->
        CASE c = "align_reads" -> 1
          [] c = "samtools sort" -> 2
          [] c = "bam2pairs" -> 3
          [] c = "attribute_fragments" -> 4
          [] c = "sort_pairs" -> 5
          [] c = "pairs2matrix" -> 6 ]

\* C22: full_pipeline never runs a stage that lies before start_stage, runs
\* the stages in pipeline order, and when it ends normally has run exactly
\* the stages at or after start_stage: alignment and name sorting iff
\* start_stage is "fastq", bam2pairs iff it is "fastq" or "bam", fragment
\* attribution iff it is not "pairs_idx", the coordinate sort and
\* pairs2matrix always.
C22_StagesFromStartStage ==
    (fp_pc # "off") =>
        /\ Has("align_reads") => start_stage = "fastq"
        /\ Has("samtools sort") => start_stage = "fastq"
        /\ Has("bam2pairs") => start_stage \in {"fastq", "bam"}
        /\ Has("attribute_fragments") => start_stage # "pairs_idx"
        /\ \A i \in 1..Len(fp_ran) : \A j \in (i + 1)..Len(fp_ran) :
              (fp_ran[i] \in DOMAIN StageRank /\ fp_ran[j] \in DOMAIN StageRank) =>
                  StageRank[fp_ran[i]] <= StageRank[fp_ran[j]]
        /\ (fp_pc = "done") =>
              /\ start_stage = "fastq" => Has("align_reads") /\ Has("samtools sort")
              /\ start_stage \in {"fastq", "bam"} => Has("bam2pairs")
              /\ start_stage # "pairs_idx" => Has("attribute_fragments")
              /\ Has("sort_pairs")
              /\ Has("pairs2matrix")

\* full_pipeline has ended normally from start_stage "pairs": it has run the
\* fragment attribution, the sort and pairs2matrix, and not bam2pairs.
C22_Witness ==
    /\ fp_pc = "done"
    /\ start_stage = "pairs"
    /\ Has("attribute_fragments")
    /\ Has("pairs2matrix")
    /\ ~Has("bam2pairs")


\* ------------------------------------------ rows of the wrong column count

\* A data row whose column count is not that of paircols.
Malformed(l) == Len(l.fields) # Len(paircols)

\* C24: a data row that has not nine columns is never processed silently:
\* once filter_pcr_dup or the aggregation pass of pairs2matrix has read such
\* a row, the pass has stopped with an error, and filter_pcr_dup has written
\* no row that ends in an empty column made up for a missing one.
C24_MalformedRowStopsThePass ==
    /\ (pcr_pc \in {"loop", "done"} /\ applications = 1) =>
          /\ \A i \in 1..Len(ReadRows) : ~Malformed(ReadRows[i])
          /\ \A i \in 1..Len(Written) : Written[i].fields[9] # ""
    /\ (p2m_pc \in {"loop", "fixup"}) =>
          \A i \in 1..Len(Streamed) : ~Malformed(Streamed[i])

\* C25: when pairs2matrix has stopped with an error, the matrix file holds
\* no entry line, or it is a GRAAL file whose header still has the '-'
\* placeholder in the place of the number of entries.
C25_NoPartialMatrixAfterError ==
    (p2m_pc = "raised") =>
        \/ Entries = <<>>
        \/ mat_fmt = "GRAAL" /\ mat[1][3] = "-"

RECURSIVE Occurrences(_, _)
\* Number of times x occurs in the sequence s.
Occurrences(x, s) ==
    IF s = <<>> THEN 0
    ELSE (IF Head(s) = x THEN 1 ELSE 0) + Occurrences(x, Tail(s))

\* Two sequences hold the same multiset of elements.
SameMultiset(s, t) ==
    /\ Len(s) = Len(t)
    /\ \A x \in Range(s) : Occurrences(x, s) = Occurrences(x, t)

\* C28: in full_pipeline, the rows of pairs_idx that the stage following the
\* coordinate sort has read when it ends are the header followed by the same
\* multiset of data rows as pairs_idx held before the sort, whenever the grep
\* and sort subprocesses take their steps.
C28_SortedFileKeepsEveryRow ==
    (from_pipeline /\ pcr_pc \in {"done", "raised"}) =>
        /\ get_pairs_header(pairs_idx) = sort_pairs(IdxHeader, pipeline_keys)
        /\ SameMultiset(ReadRows, idx_before)


\* ------------------------------------------------- properties of sort_pairs

\* The (frag1, frag2) key of a row.
FragKey(l) == << l.fields[8], l.fields[9] >>

\* C27: once sort_pairs(in_file, out_file, keys = frag1, frag2) has returned,
\* out_file holds the header lines of in_file in the same order, with the
\* "#sorted" line alone replaced by "#sorted: frag1-frag2"; the lines after
\* the header are the same multiset of rows as the data rows of in_file, in
\* ascending order of (frag1, frag2); and in_file is as it was.
C27_SortPairsOutput ==
    (p2m_pc = "loop") =>
        LET in_header == get_pairs_header(pairs_file)
            header == get_pairs_header(pre_mat_file)
            rows == SubSeq(pre_mat_file, Len(header) + 1, Len(pre_mat_file))
        IN  /\ Len(header) = Len(in_header)
            /\ \A i \in 1..Len(header) :
                  header[i] = IF in_header[i].text[1] = "#sorted:"
                              THEN HeaderLine(<< "#sorted:", "frag1-frag2" >>)
                              ELSE in_header[i]
            /\ SameMultiset(rows, InputRows)
            /\ \A i, j \in 1..Len(rows) :
                  i < j => ~KeyBefore(FragKey(rows[j]), FragKey(rows[i]))
            /\ pairs_file = in_header \o InputRows


\* ------------------------------------------- properties of get_pairs_header

\* The number of lines of the maximal run of '#' lines at the start of f.
LeadingRun(f) ==
    CHOOSE n \in 0..Len(f) :
        /\ \A i \in 1..n : IsHeader(f[i])
        /\ n = Len(f) \/ ~IsHeader(f[n + 1])

\* The words t are the words o without the trailing whitespace of o.
StrippedOf(t, o) ==
    /\ Len(t) <= Len(o)
    /\ t = SubSeq(o, 1, Len(t))
    /\ t = <<>> \/ t[Len(t)] # ""
    /\ \A j \in (Len(t) + 1)..Len(o) : o[j] = ""

\* C26: get_pairs_header returns one line for each line of the maximal run
\* of '#' lines at the start of the file, in file order, each without its
\* trailing whitespace; nothing after the first line that does not start
\* with '#' is returned, and a file that does not start with a '#' line
\* gives the empty list.
C26_HeaderIsLeadingRunStripped ==
    (hdr_pc = "returned") =>
        /\ Len(hdr_header) = LeadingRun(hdr_file)
        /\ \A i \in 1..Len(hdr_header) :
              /\ IsHeader(hdr_header[i])
              /\ StrippedOf(hdr_header[i].text, hdr_file[i].text)
        /\ (hdr_file = <<>> \/ ~IsHeader(hdr_file[1])) => hdr_header = <<>>

\* A file with a '#' line, a data row and then a '#' line that is not
\* returned; the line returned has lost its trailing space.
C26_Witness ==
    /\ hdr_pc = "returned"
    /\ Len(hdr_file) = 3
    /\ IsHeader(hdr_file[1]) /\ IsData(hdr_file[2]) /\ IsHeader(hdr_file[3])
    /\ Len(hdr_header) = 1
    /\ hdr_header[1] # hdr_file[1]


\* The identifiers of the records read from file i (name-sorted runs).
NamesRead(i) == { consumed[i][k][1] : k \in 1..Len(consumed[i]) }

\* C31: when bam2pairs is over on name-sorted files (identifiers unique in
\* each file), unmatched_reads is the number of records whose identifier
\* occurs in one file only, the records left in a file after the other one
\* ran out included.
C31_UnmatchedCountsSingletons ==
    (Terminated /\ nameSorted) =>
        unmatched_reads = Cardinality(NamesRead(1) \ NamesRead(2))
                          + Cardinality(NamesRead(2) \ NamesRead(1))


\* ------------------------------- full_pipeline: filters, files and tools

\* The place in fp_ran of the call c (0: not made), and how often it is made.
PlaceOf(c) == IF Has(c) THEN CHOOSE i \in 1..Len(fp_ran) : fp_ran[i] = c ELSE 0
TimesRan(c) == Cardinality({ i \in 1..Len(fp_ran) : fp_ran[i] = c })

\* C33: the calls after the creation of the pairs come in the order
\* sort_pairs, filter_events, filter_pcr_dup, pairs2matrix; when pairs2matrix
\* is called, filter_events has been called iff filter_events is set and
\* filter_pcr_dup iff pcr_duplicates is set; and pairs2matrix is called on
\* pairs_pcr if pcr_duplicates, else on pairs_filtered if filter_events, else
\* on pairs_idx.
C33_FiltersInOrderFeedMatrix ==
    (fp_pc # "off") =>
        /\ Has("filter_events") =>
              Has("sort_pairs") /\ PlaceOf("sort_pairs") < PlaceOf("filter_events")
        /\ Has("filter_pcr_dup") =>
              /\ Has("sort_pairs") /\ PlaceOf("sort_pairs") < PlaceOf("filter_pcr_dup")
              /\ Has("filter_events") => PlaceOf("filter_events") < PlaceOf("filter_pcr_dup")
        /\ Has("pairs2matrix") =>
              /\ PlaceOf("sort_pairs") \in 1..(PlaceOf("pairs2matrix") - 1)
              /\ Has("filter_events") <=> fp_opts.filter_events
              /\ Has("filter_pcr_dup") <=> fp_opts.pcr_duplicates
              /\ Has("filter_events") => PlaceOf("filter_events") < PlaceOf("pairs2matrix")
              /\ Has("filter_pcr_dup") => PlaceOf("filter_pcr_dup") < PlaceOf("pairs2matrix")
              /\ matrix_input = IF fp_opts.pcr_duplicates THEN "pairs_pcr"
                                ELSE IF fp_opts.filter_events THEN "pairs_filtered"
                                ELSE "pairs_idx"

\* pairs2matrix has been called after the event filter, without PCR filter:
\* it reads the event-filtered file.
C33_Witness ==
    /\ Has("pairs2matrix")
    /\ fp_opts.filter_events /\ ~fp_opts.pcr_duplicates
    /\ matrix_input = "pairs_filtered"
    /\ PlaceOf("sort_pairs") < PlaceOf("filter_events")

\* The temporary files of full_pipeline as the claim lists them.
TempPaths ==
    { paths.pairs, paths.pairs_idx, paths.pairs_filtered, paths.pairs_pcr,
      paths.bam1, paths.bam2, paths.tmp_genome }

C35_InputsLeftAlone ==
    (fp_pc # "off") =>
        /\ input1 \notin fp_written /\ input2 \notin fp_written
        /\ input1 \notin fp_removed /\ input2 \notin fp_removed

\* C36: write_frag_info is never called twice, and when pairs2matrix is
\* called it has been called once, before.
C36_FragInfoOnceBeforeMatrix ==
    (fp_pc # "off") =>
        /\ TimesRan("write_frag_info") <= 1
        /\ Has("pairs2matrix") =>
              /\ TimesRan("write_frag_info") = 1
              /\ PlaceOf("write_frag_info") < PlaceOf("pairs2matrix")

\* pairs2matrix has been called in a run from a pairs file, where the
\* fragments files are written by the `if not fragments_updated` block.
C36_Witness ==
    /\ Has("pairs2matrix")
    /\ start_stage = "pairs"
    /\ ~fragments_updated
    /\ TimesRan("write_frag_info") = 1

\* C37: once the check of the third parties is over, an error has been
\* logged if the aligner is bowtie2 or minimap2 and is not on PATH, if
\* samtools is not on PATH, and if the aligner is neither bowtie2 nor
\* minimap2.
C37_MissingToolsReported ==
    (fp_pc \notin { "off", "check" }) =>
        /\ (aligner \in { "bowtie2", "minimap2" } /\ aligner \notin on_path) =>
              \E i \in 1..Len(fp_log) : fp_log[i] = "aligner is not installed or not on PATH"
        /\ ("samtools" \notin on_path) =>
              \E i \in 1..Len(fp_log) : fp_log[i] = "Samtools is not installed or not on PATH"
        /\ (aligner \notin { "bowtie2", "minimap2" }) =>
              \E i \in 1..Len(fp_log) : fp_log[i] = "Incompatible aligner software"


\* ------------------------------------------------------------ empty inputs

\* C38: bam2pairs on two files without a record, and filter_pcr_dup called
\* on a pairs file without a data row, end normally, and the file each has
\* written holds the header lines only.
C38_EmptyInputsEndNormally ==
    /\ (Terminated /\ pulled = << 0, 0 >>) =>
          /\ pc = "done"
          /\ Rows = <<>>
    /\ (pcr_pc \in { "done", "raised" } /\ ~from_pipeline /\ applications = 1
           /\ SelectSeq(pairs_idx, IsData) = <<>>) =>
          /\ pcr_pc = "done"
          /\ filtered = get_pairs_header(pairs_idx)


\* ------------------------------------------------- sort_pairs, unknown key

\* C32: sort_pairs called with a key that key_map does not have ends with a
\* KeyError, and when it does out_file has not been created and no
\* subprocess has been started.
C32_UnknownKeyFailsFirst ==
    /\ (sp_pc = "returned") => \A i \in 1..Len(sp_keys) : sp_keys[i] \in DOMAIN key_map
    /\ (sp_pc = "raised") => (~sp_exists /\ sp_started = {})

====
